---- MODULE Spec2Model ----
(***************************************************************************)
(* A model of don-highlights: the text index (TextContent), the match      *)
(* resolution of the finders, the highlight renderer and the cursor.       *)
(*                                                                         *)
(* The document tree is a heap of node records: a node reference is the    *)
(* position of its record in `nodes`.  Marker descriptors are JavaScript   *)
(* objects shared by reference between the marker array and the range      *)
(* descriptors, so they live in a heap too (`mobjs`) and the marker array  *)
(* (`markers`) holds references into it.  JavaScript indices are 0-based   *)
(* and are kept 0-based in every result; At0 reads a sequence that way.    *)
(***************************************************************************)
EXTENDS Integers, Sequences, FiniteSets, TLC

VARIABLES
    nodes,      \* document tree: heap of node records, root is node Root
    text,       \* TextContent.text, the flattened text
    mobjs,      \* heap of marker objects {node, offset}
    markers,    \* TextContent.markers: array of references into mobjs
    devMode,    \* process.env.NODE_ENV === "development"
    ops,        \* number of tree-mutating calls made so far (bounded)
    last,       \* the last call on the index: arguments, pre-state, outcome
    decorations, \* the decorator's decorate calls made by the last call on the index
    highlights, \* heap of the Highlight objects created: {queryName, elements}
    registry,   \* HighlightMarkers: the highlights registered (references), in order
    index,      \* Cursor.index
    active,     \* Cursor.active (a highlight id, or Null)
    iterableQueries, \* Cursor.iterableQueries: null, or an array of query names
    total,      \* Cursor.total
    decorated,  \* the highlights the decorator currently shows as active
    emitted,    \* notifications and collaborator calls of the last cursor call
    clast,      \* the last cursor call: arguments, pre-state, outcome
    ncalls,     \* number of cursor and registry calls made so far (bounded)
    results,    \* Finder.results: the hits {index, length} the finder collected
    fcurrent,   \* Finder.current
    returned,   \* what the finder's next() calls returned so far, in order
    re,         \* the RegExp of TextFinder.constructor: {atoms, global, ignoreCase, lastIndex}
    scanning    \* TRUE while the `re.exec` loop of TextFinder.constructor runs

fvars == <<results, fcurrent, returned, re, scanning>>
ivars == <<nodes, text, mobjs, markers, devMode, ops, last, decorations, fvars>>
cvars == <<highlights, registry, index, active, iterableQueries, total, decorated, emitted, clast,
          ncalls>>
vars == <<ivars, cvars>>

\* Bounds of the model
MaxOps == 2
MaxHighlights == 3
MaxCalls == 5
MaxHits == 2
MaxRounds == 3
MaxQuery == 2
MaxAtoms == 2
MaxScan == 4

Null == 0
Root == 1
TEXT_NODE == 3
ELEMENT_NODE == 1

Min(a, b) == IF a < b THEN a ELSE b
Max(a, b) == IF a > b THEN a ELSE b
At0(s, i) == s[i + 1]

Ok(v) == [ok |-> TRUE, val |-> v]
Err == [ok |-> FALSE, val |-> -1]

(***************************************************************************)
(* Strings are sequences of one-character strings.                         *)
(***************************************************************************)
\* String.prototype.substr(start, length) for start >= 0
substr(s, start, len) ==
    IF start >= Len(s) \/ len <= 0 THEN <<>>
    ELSE SubSeq(s, start + 1, Min(start + len, Len(s)))

\* String.prototype.substr(start) for start >= 0
substrFrom(s, start) ==
    IF start >= Len(s) THEN <<>> ELSE SubSeq(s, start + 1, Len(s))

\* " ".repeat(n)
RECURSIVE repeatSpace(_)
repeatSpace(n) == IF n <= 0 THEN <<>> ELSE <<" ">> \o repeatSpace(n - 1)

RECURSIVE Concat(_)
Concat(ss) == IF ss = <<>> THEN <<>> ELSE Head(ss) \o Concat(Tail(ss))

\* Array.prototype.splice(at, 0, x)
splice(s, at, x) ==
    LET k == Min(Max(at, 0), Len(s))
    IN SubSeq(s, 1, k) \o <<x>> \o SubSeq(s, k + 1, Len(s))

RemoveAt(s, k) == SubSeq(s, 1, k - 1) \o SubSeq(s, k + 1, Len(s))

PosIn(s, x) == IF \E k \in 1..Len(s) : s[k] = x
               THEN CHOOSE k \in 1..Len(s) : s[k] = x
               ELSE 0

(***************************************************************************)
(* The document tree (the DOM and the helpers of ./dom).                   *)
(***************************************************************************)
IGNORE_TAGNAMES ==
    {"HTML", "HEAD", "META", "SCRIPT", "STYLE", "CANVAS", "IFRAME", "SVG", "AUDIO", "VIDEO"}

TextNode(v, p) ==
    [nodeType |-> TEXT_NODE, tagName |-> "#text", nodeValue |-> v,
     childNodes |-> <<>>, parentNode |-> p, dhHighlight |-> FALSE]

Element(tag, ch, p, dh) ==
    [nodeType |-> ELEMENT_NODE, tagName |-> tag, nodeValue |-> <<>>,
     childNodes |-> ch, parentNode |-> p, dhHighlight |-> dh]

\* document.createTextNode / document.createElement: the new node's reference
newNode(n) == Len(n) + 1

\* Node.removeChild: detach x from its parent (the record stays in the heap)
removeChild(n, x) ==
    LET p == n[x].parentNode
    IN IF p = Null THEN n
       ELSE [n EXCEPT ![p].childNodes = RemoveAt(@, PosIn(@, x)),
                      ![x].parentNode = Null]

\* dom.insertBefore(x, ref): ref.parentNode.insertBefore(x, ref)
insertBefore(n, x, ref) ==
    LET d == removeChild(n, x)
        p == d[ref].parentNode
    IN [d EXCEPT ![p].childNodes = splice(@, PosIn(@, ref) - 1, x),
                 ![x].parentNode = p]

\* dom.insertAfter(x, ref): inserts x as the sibling following ref
insertAfter(n, x, ref) ==
    LET d == removeChild(n, x)
        p == d[ref].parentNode
    IN [d EXCEPT ![p].childNodes = splice(@, PosIn(@, ref), x),
                 ![x].parentNode = p]

\* Node.appendChild(x): moves x to the end of p's children
appendChild(n, p, x) ==
    LET d == removeChild(n, x)
    IN [d EXCEPT ![p].childNodes = Append(@, x), ![x].parentNode = p]

\* All nodes of the subtree of x in document (pre-)order
RECURSIVE PreOrder(_, _)
RECURSIVE PreOrderAll(_, _)
PreOrder(n, x) == <<x>> \o PreOrderAll(n, n[x].childNodes)
PreOrderAll(n, xs) ==
    IF xs = <<>> THEN <<>> ELSE PreOrder(n, Head(xs)) \o PreOrderAll(n, Tail(xs))

\* The text nodes under the root, in document order
TextNodes(n) == LET IsText(x) == n[x].nodeType = TEXT_NODE
                IN SelectSeq(PreOrder(n, Root), IsText)

(***************************************************************************)
(* TextContent: the text index.                                            *)
(***************************************************************************)
\* the node's content appended as it is, whatever its parent
visitTextLiteral(n, x, content) == content

\* TextContent._visit: what a non-empty text node adds to the flattened text
visitText(n, x, content) ==
    IF n[n[x].parentNode].tagName \in IGNORE_TAGNAMES
    THEN repeatSpace(Len(content))
    ELSE content

\* TextContent._visit: acc = [offset, text, found], found the markers pushed
RECURSIVE visit(_, _, _)
RECURSIVE visitChildren(_, _, _)
visit(n, x, acc) ==
    IF n[x].nodeType = TEXT_NODE
    THEN LET content == n[x].nodeValue
             length == Len(content)
         IN IF length < 1 THEN acc
            ELSE [offset |-> acc.offset + length,
                  text |-> acc.text \o visitText(n, x, content),
                  found |-> Append(acc.found, [node |-> x, offset |-> acc.offset])]
    ELSE visitChildren(n, n[x].childNodes, acc)
visitChildren(n, ch, acc) ==
    IF ch = <<>> THEN acc
    ELSE visitChildren(n, Tail(ch), visit(n, Head(ch), acc))

\* TextContent.parse: [ok, text, mobjs, markers]
parse(n, mo, dev) ==
    LET r == visit(n, Root, [offset |-> 0, text |-> <<>>, found |-> <<>>])
        k == Len(r.found)
        sane == \/ ~dev
                \/ k = 0
                \/ r.offset - Len(n[r.found[k].node].nodeValue) = r.found[k].offset
    IN [ok |-> sane,
        text |-> r.text,
        mobjs |-> mo \o r.found,
        markers |-> [i \in 1..k |-> Len(mo) + i]]

\* the binary search loop of TextContent.indexOf
RECURSIVE search(_, _, _, _, _)
search(mo, mk, offset, min, max) ==
    IF min < max
    THEN LET mid == (min + max) \div 2
         IN IF mo[At0(mk, mid)].offset < offset
            THEN search(mo, mk, offset, mid + 1, max)
            ELSE search(mo, mk, offset, min, mid)
    ELSE min

\* indexOf returning `min` where the code returns `min - 1`
indexOfNoStepBack(mo, mk, offset) ==
    LET min == search(mo, mk, offset, 0, Len(mk) - 1)
    IN IF Len(mk) = 0 THEN Err
       ELSE IF mo[At0(mk, min)].offset <= offset THEN Ok(min)
       ELSE IF min = 0 THEN Err
       ELSE Ok(min)

\* TextContent.indexOf: Ok(index) or Err when the call throws
indexOf(mo, mk, offset) ==
    LET min == search(mo, mk, offset, 0, Len(mk) - 1)
    IN IF Len(mk) = 0 THEN Err    \* markers[0] is undefined: TypeError
       ELSE IF mo[At0(mk, min)].offset <= offset THEN Ok(min)
       ELSE IF min = 0 THEN Err
       ELSE Ok(min - 1)

\* TextContent.at: Ok(marker reference) or Err when the call throws
at(mk, i) == IF i < 0 \/ i >= Len(mk) THEN Err ELSE Ok(At0(mk, i))

\* TextContent.substr(offset, len): Ok(string) or Err when the call throws
contentSubstr(txt, offset, len) ==
    IF offset < 0 \/ offset >= Len(txt) THEN Err
    ELSE IF len < 0 THEN Err
    ELSE Ok(substr(txt, offset, len))

\* TextContent.assert: TRUE unless it throws
assert(n, mo, mk) ==
    \A i \in 1..Len(mk) :
        mo[mk[i]].offset =
            (IF i = 1 THEN 0 ELSE mo[mk[i - 1]].offset + Len(n[mo[mk[i - 1]].node].nodeValue))

\* the sanity checks without the "End offset overflow" check
truncateParamsNoOverflowCheck(txt, start, end) ==
    ~(start < 0 \/ end < 0 \/ start > end)

\* TextContent.truncate, the sanity checks: TRUE when neither throws
truncateParamsOk(txt, start, end) ==
    ~(start < 0 \/ end < 0 \/ start > end) /\ ~(end >= Len(txt))

\* the substring taken one character short
truncateMiddleShort(txt, start, end) == substr(txt, start, end - start)

\* the [start .. end] substring of the old node
truncateMiddle(txt, start, end) == substr(txt, start, end - start + 1)

\* the offset computed as if marker.offset had not been advanced by `start`
truncateTailOffsetStale(markerOffset, start, end) == markerOffset + end + 1

\* offset of the marker added for the characters after `end`; markerOffset is
\* marker.offset after `marker.offset += start`
truncateTailOffset(markerOffset, start, end) == markerOffset + end - start + 1

\* the head marker inserted without `++index`
truncateHeadNoAdvance(n, mo, mk, m, idx, start) ==
    IF start > 0
    THEN [nodes |-> insertBefore(
                        Append(n, TextNode(substr(n[mo[m].node].nodeValue, 0, start), Null)),
                        newNode(n), mo[m].node),
          mobjs |-> Append(mo, [node |-> newNode(n), offset |-> mo[m].offset]),
          markers |-> splice(mk, idx, Len(mo) + 1),
          idx |-> idx]
    ELSE [nodes |-> n, mobjs |-> mo, markers |-> mk, idx |-> idx]

\* TextContent.truncate, "Chars 0..start - 1": the state after the first
\* splice, idx the local `index`
truncateHead(n, mo, mk, m, idx, start) ==
    IF start > 0
    THEN [nodes |-> insertBefore(
                        Append(n, TextNode(substr(n[mo[m].node].nodeValue, 0, start), Null)),
                        newNode(n), mo[m].node),
          mobjs |-> Append(mo, [node |-> newNode(n), offset |-> mo[m].offset]),
          markers |-> splice(mk, idx, Len(mo) + 1),
          idx |-> idx + 1]
    ELSE [nodes |-> n, mobjs |-> mo, markers |-> mk, idx |-> idx]

\* the node replaced without `marker.offset += start`
truncateReplaceKeepsOffset(s, m, txt, start, end) ==
    [nodes |-> insertBefore(Append(s.nodes, TextNode(truncateMiddle(txt, start, end), Null)),
                            newNode(s.nodes), s.mobjs[m].node),
     mobjs |-> [s.mobjs EXCEPT ![m] = [node |-> newNode(s.nodes), offset |-> @.offset]],
     markers |-> s.markers,
     idx |-> s.idx]

\* TextContent.truncate, "Chars start..end": marker.offset += start and
\* marker.node replaced by the node inserted before the old one
truncateReplace(s, m, txt, start, end) ==
    [nodes |-> insertBefore(Append(s.nodes, TextNode(truncateMiddle(txt, start, end), Null)),
                            newNode(s.nodes), s.mobjs[m].node),
     mobjs |-> [s.mobjs EXCEPT ![m] = [node |-> newNode(s.nodes), offset |-> @.offset + start]],
     markers |-> s.markers,
     idx |-> s.idx]

\* the tail marker put in the place of the marker that follows
truncateTailReplaces(s, m, txt, start, end) ==
    IF end = Len(txt) - 1 \/ s.idx >= Len(s.markers)
    THEN [nodes |-> s.nodes, mobjs |-> s.mobjs, markers |-> s.markers, idx |-> s.idx,
          thrown |-> end # Len(txt) - 1]
    ELSE [nodes |-> insertAfter(Append(s.nodes, TextNode(substrFrom(txt, end + 1), Null)),
                                newNode(s.nodes), s.mobjs[m].node),
          mobjs |-> Append(s.mobjs,
                           [node |-> newNode(s.nodes),
                            offset |-> truncateTailOffset(s.mobjs[m].offset, start, end)]),
          markers |-> SubSeq(s.markers, 1, s.idx + 1) \o <<Len(s.mobjs) + 1>>
                          \o SubSeq(s.markers, s.idx + 3, Len(s.markers)),
          idx |-> s.idx,
          thrown |-> FALSE]

\* the tail node and its marker created also when nothing follows `end`
truncateTailAlways(s, m, txt, start, end) ==
    IF s.idx >= Len(s.markers)
    THEN [nodes |-> s.nodes, mobjs |-> s.mobjs, markers |-> s.markers, idx |-> s.idx,
          thrown |-> TRUE]
    ELSE [nodes |-> insertAfter(Append(s.nodes, TextNode(substrFrom(txt, end + 1), Null)),
                                newNode(s.nodes), s.mobjs[m].node),
          mobjs |-> Append(s.mobjs,
                           [node |-> newNode(s.nodes),
                            offset |-> truncateTailOffset(s.mobjs[m].offset, start, end)]),
          markers |-> splice(s.markers, s.idx + 1, Len(s.mobjs) + 1),
          idx |-> s.idx,
          thrown |-> FALSE]

\* TextContent.truncate, "Chars end + 1..length"; thrown when the index check
\* throws
truncateTail(s, m, txt, start, end) ==
    IF end = Len(txt) - 1
    THEN [nodes |-> s.nodes, mobjs |-> s.mobjs, markers |-> s.markers, idx |-> s.idx,
          thrown |-> FALSE]
    ELSE IF s.idx >= Len(s.markers)
    THEN [nodes |-> s.nodes, mobjs |-> s.mobjs, markers |-> s.markers, idx |-> s.idx,
          thrown |-> TRUE]
    ELSE [nodes |-> insertAfter(Append(s.nodes, TextNode(substrFrom(txt, end + 1), Null)),
                                newNode(s.nodes), s.mobjs[m].node),
          mobjs |-> Append(s.mobjs,
                           [node |-> newNode(s.nodes),
                            offset |-> truncateTailOffset(s.mobjs[m].offset, start, end)]),
          markers |-> splice(s.markers, s.idx + 1, Len(s.mobjs) + 1),
          idx |-> s.idx,
          thrown |-> FALSE]

\* TextContent.truncate, the end: the development assertion, then the old node
\* is removed
truncateFinish(s, dev, old) ==
    IF s.thrown \/ (dev /\ ~assert(s.nodes, s.mobjs, s.markers))
    THEN [ok |-> FALSE, val |-> -1, nodes |-> s.nodes, mobjs |-> s.mobjs,
          markers |-> s.markers]
    ELSE [ok |-> TRUE, val |-> s.idx, nodes |-> removeChild(s.nodes, old),
          mobjs |-> s.mobjs, markers |-> s.markers]

\* TextContent.truncate(marker, start, end), marker a reference into mobjs:
\* [ok, val, nodes, mobjs, markers], the state being the one the call leaves
\* behind also when it throws
truncate(n, mo, mk, dev, m, start, end) ==
    IF ~indexOf(mo, mk, mo[m].offset).ok
       \/ ~truncateParamsOk(n[mo[m].node].nodeValue, start, end)
    THEN [ok |-> FALSE, val |-> -1, nodes |-> n, mobjs |-> mo, markers |-> mk]
    ELSE truncateFinish(
             truncateTail(
                 truncateReplace(
                     truncateHead(n, mo, mk, m, indexOf(mo, mk, mo[m].offset).val, start),
                     m, n[mo[m].node].nodeValue, start, end),
                 m, n[mo[m].node].nodeValue, start, end),
             dev, mo[m].node)

(***************************************************************************)
(* Match resolution (Finder.getAt_, TextFinder.next) and ranges.           *)
(***************************************************************************)
\* TextRange.descriptorAbs(marker, offset): position relative to the marker
descriptorAbs(mo, m, offset) == [marker |-> m, offset |-> offset - mo[m].offset]

\* Finder.getAt_ once indexOf has answered i: Ok(descriptor) or Err when
\* indexOf or at throws
getAtIndex(mo, mk, i, offset) ==
    IF ~i.ok THEN Err
    ELSE IF ~at(mk, i.val).ok THEN Err
    ELSE Ok(descriptorAbs(mo, at(mk, i.val).val, offset))

\* Finder.getAt_: Ok(descriptor) or Err when it throws
getAt_(mo, mk, offset) == getAtIndex(mo, mk, indexOf(mo, mk, offset), offset)

\* the end descriptor placed one character too far
shortcutEndPast(start, length) == [start EXCEPT !.offset = start.offset + length]

\* TextFinder.next, the end descriptor re-used from the start descriptor
shortcutEnd(start, length) == [start EXCEPT !.offset = start.offset + length - 1]

\* TextFinder.next once the start descriptor is known
resolveEnd(n, mo, mk, hit, length, start) ==
    IF ~start.ok THEN Err
    ELSE IF start.val.offset + length <= Len(n[mo[start.val.marker].node].nodeValue)
    THEN Ok([start |-> start.val, end |-> shortcutEnd(start.val, length)])
    ELSE IF ~getAt_(mo, mk, hit + length - 1).ok THEN Err
    ELSE Ok([start |-> start.val, end |-> getAt_(mo, mk, hit + length - 1).val])

\* TextFinder.next for the hit {index, length}: Ok([start, end]) or Err
resolve(n, mo, mk, hit, length) ==
    resolveEnd(n, mo, mk, hit, length, getAt_(mo, mk, hit))

(***************************************************************************)
(* TextNodeVisitor: the text nodes in document order.                      *)
(***************************************************************************)
\* TextNodeVisitor.next: the text node following `current`, Null at the end
visitorNext(n, current) ==
    LET ts == TextNodes(n)
        k == PosIn(ts, current)
    IN IF k = 0 \/ k >= Len(ts) THEN Null ELSE ts[k + 1]

\* the loop `while (visitor.next() !== end) coll.push(visitor.current)`:
\* Ok(coll), or Err when the visitor runs off the tree before reaching `end`
RECURSIVE collect(_, _, _, _)
collect(n, current, end, coll) ==
    LET nxt == visitorNext(n, current)
    IN IF nxt = end THEN Ok(coll)
       ELSE IF nxt = Null THEN Err
       ELSE collect(n, nxt, end, Append(coll, nxt))

(***************************************************************************)
(* HighlightRenderer.                                                      *)
(***************************************************************************)
\* HighlightRenderer._createHighlightElement: [nodes, el]
createHighlightElement(n, node) ==
    [nodes |-> appendChild(
                   insertBefore(Append(n, Element("SPAN", <<>>, Null, TRUE)), newNode(n), node),
                   newNode(n), node),
     el |-> newNode(n)]

\* isHighlight
isHighlight(n, x) == n[x].nodeType = ELEMENT_NODE /\ n[x].dhHighlight

\* HighlightRenderer._surround after its truncate call returned t
surroundTruncated(t, descr) ==
    IF ~t.ok
    THEN [ok |-> FALSE, el |-> Null, nodes |-> t.nodes, mobjs |-> t.mobjs,
          markers |-> t.markers]
    ELSE [ok |-> TRUE, el |-> newNode(t.nodes),
          nodes |-> createHighlightElement(t.nodes, t.mobjs[descr.marker].node).nodes,
          mobjs |-> t.mobjs, markers |-> t.markers]

\* HighlightRenderer._surround(descr, start, end), end = Err standing for null:
\* [ok, el, nodes, mobjs, markers]
surroundNode(n, mo, mk, dev, descr, start, end) ==
    surroundTruncated(
        truncate(n, mo, mk, dev, descr.marker, start,
                 IF ~end.ok THEN Len(n[mo[descr.marker].node].nodeValue) - 1 ELSE end.val),
        descr)

\* HighlightRenderer._surroundWhole(node): same shape as surroundNode
surroundWhole(n, mo, mk, node) ==
    [ok |-> TRUE, el |-> newNode(n), nodes |-> createHighlightElement(n, node).nodes,
     mobjs |-> mo, markers |-> mk]

\* the wrapping calls without those for the nodes in between
wrapCallsEndsOnly(range, single, coll) ==
    IF single
    THEN <<[whole |-> FALSE, node |-> Null, descr |-> range.start,
            start |-> range.start.offset, end |-> Ok(range.end.offset)]>>
    ELSE <<[whole |-> FALSE, node |-> Null, descr |-> range.start,
            start |-> range.start.offset, end |-> Err],
           [whole |-> FALSE, node |-> Null, descr |-> range.end,
            start |-> 0, end |-> Ok(range.end.offset)]>>

\* the wrapping calls of surround, in the order surround makes them
wrapCalls(range, single, coll) ==
    IF single
    THEN <<[whole |-> FALSE, node |-> Null, descr |-> range.start,
            start |-> range.start.offset, end |-> Ok(range.end.offset)]>>
    ELSE <<[whole |-> FALSE, node |-> Null, descr |-> range.start,
            start |-> range.start.offset, end |-> Err]>>
         \o [i \in 1..Len(coll) |->
                [whole |-> TRUE, node |-> coll[i], descr |-> range.start,
                 start |-> 0, end |-> Err]]
         \o <<[whole |-> FALSE, node |-> Null, descr |-> range.end,
               start |-> 0, end |-> Ok(range.end.offset)]>>

\* one wrapping call c made in state s
wrapCall(s, dev, c) ==
    IF c.whole
    THEN surroundWhole(s.nodes, s.mobjs, s.markers, c.node)
    ELSE surroundNode(s.nodes, s.mobjs, s.markers, dev, c.descr, c.start, c.end)

\* the state of surround after the wrapping call c returned r
wrapped(s, c, r) ==
    [ok |-> r.ok,
     elements |-> IF r.ok THEN Append(s.elements, r.el) ELSE s.elements,
     truncs |-> IF c.whole THEN s.truncs ELSE s.truncs + 1,
     nodes |-> r.nodes, mobjs |-> r.mobjs, markers |-> r.markers]

\* runs the wrapping calls one after the other, stopping at the first that throws
RECURSIVE wrapAll(_, _, _)
wrapAll(s, dev, calls) ==
    IF calls = <<>> \/ ~s.ok THEN s
    ELSE wrapAll(wrapped(s, Head(calls), wrapCall(s, dev, Head(calls))), dev, Tail(calls))

\* the text nodes between the start and the end node of a range, Ok(<<>>) when
\* both are the same node
between(n, mo, range) ==
    IF mo[range.start.marker].node = mo[range.end.marker].node THEN Ok(<<>>)
    ELSE collect(n, mo[range.start.marker].node, mo[range.end.marker].node, <<>>)

\* the wrapper elements in the tree
Wrappers(n) == {x \in 1..Len(n) : n[x].dhHighlight}

\* decorator.decorate(elements, highlight) as the decorator sees it: the
\* elements passed, the range of the highlight passed and the wrapper elements
\* in the tree at that moment
decorate(elements, range, n) ==
    [elements |-> elements, range |-> range, wrappers |-> Wrappers(n)]

\* surround handing the highlight to the decorator before its start offset is
\* cleared
surroundedDecoratesFirst(r, range) ==
    [ok |-> r.ok, elements |-> IF r.ok THEN r.elements ELSE <<>>, truncs |-> r.truncs,
     nodes |-> r.nodes, mobjs |-> r.mobjs, markers |-> r.markers,
     range |-> IF r.ok THEN [range EXCEPT !.start.offset = 0] ELSE range,
     decorate |-> IF r.ok THEN <<decorate(r.elements, range, r.nodes)>> ELSE <<>>]

\* what surround returns and leaves behind once its wrapping calls ended in r:
\* range is the range after clearStartOffset, decorate the decorate calls made
surrounded(r, range) ==
    [ok |-> r.ok, elements |-> IF r.ok THEN r.elements ELSE <<>>, truncs |-> r.truncs,
     nodes |-> r.nodes, mobjs |-> r.mobjs, markers |-> r.markers,
     range |-> IF r.ok THEN [range EXCEPT !.start.offset = 0] ELSE range,
     decorate |-> IF r.ok
                  THEN <<decorate(r.elements, [range EXCEPT !.start.offset = 0], r.nodes)>>
                  ELSE <<>>]

\* surround once the nodes between start and end are collected in coll
surroundColl(n, mo, mk, dev, range, coll) ==
    IF ~coll.ok
    THEN surrounded([ok |-> FALSE, elements |-> <<>>, truncs |-> 0, nodes |-> n,
                     mobjs |-> mo, markers |-> mk], range)
    ELSE surrounded(
             wrapAll([ok |-> TRUE, elements |-> <<>>, truncs |-> 0, nodes |-> n,
                      mobjs |-> mo, markers |-> mk],
                     dev,
                     wrapCalls(range, mo[range.start.marker].node = mo[range.end.marker].node,
                               coll.val)),
             range)

\* HighlightRenderer.surround(highlight) for highlight.range = range:
\* [ok, elements, truncs, nodes, mobjs, markers, range]; truncs counts the
\* truncate calls made
surround(n, mo, mk, dev, range) ==
    surroundColl(n, mo, mk, dev, range, between(n, mo, range))

\* decorate wrapping the first element of the highlight once more
rendererDecorateRewraps(n, elements, range) ==
    [nodes |-> createHighlightElement(n, elements[1]).nodes,
     elements |-> <<newNode(n)>> \o Tail(elements),
     decorate |-> <<decorate(<<newNode(n)>> \o Tail(elements), range,
                             createHighlightElement(n, elements[1]).nodes)>>]

\* HighlightRenderer.decorate(highlight) for a highlight with the elements and
\* the range given: [nodes, elements, decorate], the tree and the highlight's
\* elements it leaves behind and the decorate calls made
rendererDecorate(n, elements, range) ==
    [nodes |-> n, elements |-> elements, decorate |-> <<decorate(elements, range, n)>>]

(***************************************************************************)
(* The documents the index is built over.                                  *)
(***************************************************************************)
\* <div>abc</div>
DocSingle ==
    <<Element("DIV", <<2>>, Null, FALSE), TextNode(<<"a", "b", "c">>, Root)>>

\* three text nodes under a shared parent
DocSiblings ==
    <<Element("DIV", <<2, 3, 4>>, Null, FALSE), TextNode(<<"a", "b">>, Root),
      TextNode(<<"c">>, Root), TextNode(<<"d", "e">>, Root)>>

\* <p>ab<script>xy</script>cd</p>
DocScript ==
    <<Element("P", <<2, 3, 5>>, Null, FALSE), TextNode(<<"a", "b">>, Root),
      Element("SCRIPT", <<4>>, Root, FALSE), TextNode(<<"x", "y">>, 3),
      TextNode(<<"c", "d">>, Root)>>

\* nested elements and an empty text node
DocNested ==
    <<Element("DIV", <<2, 4, 5>>, Null, FALSE), Element("P", <<3>>, Root, FALSE),
      TextNode(<<"a", "b">>, 2), TextNode(<<>>, Root), Element("P", <<6, 7>>, Root, FALSE),
      TextNode(<<"c">>, 5), Element("B", <<8>>, 5, FALSE), TextNode(<<"d">>, 7)>>

\* a container without text
DocEmpty == <<Element("DIV", <<>>, Null, FALSE)>>

Docs == {DocSingle, DocSiblings, DocScript, DocNested, DocEmpty}

(***************************************************************************)
(* The index and the renderer as a state machine.                          *)
(***************************************************************************)
Snapshot == [nodes |-> nodes, text |-> text, mobjs |-> mobjs, markers |-> markers]

NoRange == [start |-> [marker |-> Null, offset |-> 0], end |-> [marker |-> Null, offset |-> 0]]

LastCall(op, args, ok, val, elements, truncs, range) ==
    [op |-> op, args |-> args, ok |-> ok, val |-> val, elements |-> elements,
     truncs |-> truncs, range |-> range, pre |-> Snapshot]

\* the index as the DonHighlights constructor leaves it:
\* new TextContent(container); content.parse()
IndexParsed(docs, builds) ==
    /\ nodes \in docs
    /\ devMode \in builds
    /\ mobjs = parse(nodes, <<>>, devMode).mobjs
    /\ markers = parse(nodes, <<>>, devMode).markers
    /\ text = parse(nodes, <<>>, devMode).text
    /\ ops = 0
    /\ decorations = <<>>
    /\ last = [op |-> "init", args |-> <<>>, ok |-> TRUE, val |-> 0, elements |-> <<>>,
               truncs |-> 0, range |-> NoRange,
               pre |-> [nodes |-> nodes, text |-> <<>>, mobjs |-> <<>>, markers |-> <<>>]]

\* TextContent.parse()
Parsed(r) ==
    /\ text' = r.text
    /\ mobjs' = r.mobjs
    /\ markers' = r.markers
    /\ last' = LastCall("parse", <<>>, r.ok, 0, <<>>, 0, NoRange)
    /\ decorations' = <<>>

Parse ==
    /\ ops < MaxOps
    /\ Parsed(parse(nodes, mobjs, devMode))
    /\ ops' = ops + 1
    /\ UNCHANGED <<nodes, devMode, cvars, fvars>>

Truncated(r, args) ==
    /\ nodes' = r.nodes
    /\ mobjs' = r.mobjs
    /\ markers' = r.markers
    /\ last' = LastCall("truncate", args, r.ok, r.val, <<>>, 1, NoRange)
    /\ decorations' = <<>>

Truncate(i, start, end) ==
    /\ ops < MaxOps
    /\ Truncated(truncate(nodes, mobjs, markers, devMode, At0(markers, i), start, end),
                 <<i, start, end>>)
    /\ ops' = ops + 1
    /\ UNCHANGED <<text, devMode, cvars, fvars>>

\* one round of DonHighlights.query: finder.next() resolves the hit
\* {index: hit, length} and the predicate wraps it with surround
Surrounded(r, args, range) ==
    /\ nodes' = r.nodes
    /\ mobjs' = r.mobjs
    /\ markers' = r.markers
    /\ last' = LastCall("surround", args, r.ok, 0, r.elements, r.truncs, range)
    /\ decorations' = r.decorate

Resolved(range, args) ==
    /\ range.ok
    /\ Surrounded(surround(nodes, mobjs, markers, devMode, range.val), args, range.val)

Highlight(hit, length) ==
    /\ ops < MaxOps
    /\ Resolved(resolve(nodes, mobjs, markers, hit, length), <<hit, length>>)
    /\ ops' = ops + 1
    /\ UNCHANGED <<text, devMode, cvars, fvars>>

\* the range of the highlight the last call wrapped or decorated
HighlightRange == [last.range EXCEPT !.start.offset = 0]

Redecorated(r, range) ==
    /\ nodes' = r.nodes
    /\ last' = LastCall("decorate", <<last.elements>>, TRUE, 0, r.elements, 0, range)
    /\ decorations' = r.decorate

\* HighlightRenderer.decorate on the highlight last wrapped
Decorate ==
    /\ ops < MaxOps
    /\ last.op \in {"surround", "decorate"}
    /\ last.ok
    /\ Redecorated(rendererDecorate(nodes, last.elements, HighlightRange), HighlightRange)
    /\ ops' = ops + 1
    /\ UNCHANGED <<text, mobjs, markers, devMode, cvars, fvars>>

(***************************************************************************)
(* Finder / TextFinder: the hits of a query, handed out one by one.        *)
(***************************************************************************)
\* the hits {index, length}, length >= 1, inside txt
HitsOf(txt) ==
    {h \in [index : 0..Len(txt) - 1, length : 1..Len(txt)] : h.index + h.length <= Len(txt)}

\* TextFinder.constructor: the result lists the `re.exec` loop of a global
\* expression can collect over txt, hits in increasing order without overlap
HitLists(txt) ==
    {l \in UNION {[1..k -> HitsOf(txt)] : k \in 0..MaxHits} :
        \A k \in 1..Len(l) - 1 : l[k].index + l[k].length <= l[k + 1].index}

\* no expression under scan
NoRegExp == [atoms |-> <<>>, global |-> FALSE, ignoreCase |-> FALSE, lastIndex |-> 0]

\* Finder.constructor, then the results TextFinder.constructor collects
FinderConstructed(lists) ==
    /\ results \in lists
    /\ fcurrent = 0
    /\ returned = <<>>
    /\ re = NoRegExp
    /\ scanning = FALSE

NoHit == [index |-> -1, length |-> 0]

\* next handing its hit out without `++this.current`
finderNextStays(r, hit, cur) ==
    IF ~r.ok
    THEN [ok |-> FALSE, none |-> FALSE, hit |-> hit, range |-> NoRange, current |-> cur]
    ELSE [ok |-> TRUE, none |-> FALSE, hit |-> hit, range |-> r.val, current |-> cur]

\* TextFinder.next once its hit is resolved to r: ok is FALSE when it throws
finderNextResolved(r, hit, cur) ==
    IF ~r.ok
    THEN [ok |-> FALSE, none |-> FALSE, hit |-> hit, range |-> NoRange, current |-> cur]
    ELSE [ok |-> TRUE, none |-> FALSE, hit |-> hit, range |-> r.val, current |-> cur + 1]

\* TextFinder.next: [ok, none, hit, range, current], none when it returns null
finderNext(n, mo, mk, res, cur) ==
    IF cur >= Len(res)
    THEN [ok |-> TRUE, none |-> TRUE, hit |-> NoHit, range |-> NoRange, current |-> cur]
    ELSE finderNextResolved(
             resolve(n, mo, mk, At0(res, cur).index, At0(res, cur).length),
             At0(res, cur), cur)

Yielded(r) ==
    /\ fcurrent' = r.current
    /\ returned' = Append(returned, [ok |-> r.ok, none |-> r.none, hit |-> r.hit,
                                     range |-> r.range])

\* finder.next(), the caller leaving the range alone
FinderNext ==
    /\ Len(returned) < MaxRounds
    /\ Yielded(finderNext(nodes, mobjs, markers, results, fcurrent))
    /\ UNCHANGED <<results, re, scanning, nodes, text, mobjs, markers, devMode, ops, last,
                   decorations, cvars>>

\* one round of the loop of DonHighlights.query: finder.next() returns a hit
\* and the predicate wraps it with surround
QueryRound ==
    /\ Len(returned) < MaxRounds
    /\ fcurrent < Len(results)
    /\ Yielded(finderNext(nodes, mobjs, markers, results, fcurrent))
    /\ Resolved(resolve(nodes, mobjs, markers, At0(results, fcurrent).index,
                        At0(results, fcurrent).length),
                <<At0(results, fcurrent).index, At0(results, fcurrent).length>>)
    /\ UNCHANGED <<results, re, scanning, text, devMode, ops, cvars>>

(***************************************************************************)
(* TextFinder.constructor: the query compiled to a RegExp and the loop     *)
(* `while ((match = re.exec(text)) !== null) results.push(...)`.  A RegExp *)
(* is a sequence of atoms {ch, star}: the character ch, or ch* when star.  *)
(***************************************************************************)
QueryChars == {"a", "B", "*"}
AtomChars == {"a", "c"}

\* String.prototype.toLowerCase on the characters used
Fold(ch) == IF ch = "B" THEN "b" ELSE ch

Literal(ch) == [ch |-> ch, star |-> FALSE]

\* the queries TextFinder.isSubject accepts: strings and RegExp objects
StringQueries ==
    {[kind |-> "string", chars |-> cs, atoms |-> <<>>, global |-> FALSE] :
        cs \in UNION {[1..k -> QueryChars] : k \in 0..MaxQuery}}
RegExpQueries ==
    {[kind |-> "regexp", chars |-> <<>>, atoms |-> as, global |-> g] :
        as \in UNION {[1..k -> [ch : AtomChars, star : BOOLEAN]] : k \in 1..MaxAtoms},
        g \in BOOLEAN}
TextQueries == StringQueries \cup RegExpQueries

\* the RegExp the constructor scans with: the query itself, or the string
\* with every special character escaped, flags 'gi'
compile(query) ==
    IF query.kind = "regexp"
    THEN [atoms |-> query.atoms, global |-> query.global, ignoreCase |-> FALSE,
          lastIndex |-> 0]
    ELSE [atoms |-> [k \in 1..Len(query.chars) |-> Literal(query.chars[k])],
          global |-> TRUE, ignoreCase |-> TRUE, lastIndex |-> 0]

\* the atom matches the character of txt at position p (0-based)
AtomFits(atom, txt, p, ic) ==
    /\ p < Len(txt)
    /\ IF ic THEN Fold(txt[p + 1]) = Fold(atom.ch) ELSE txt[p + 1] = atom.ch

\* the number of characters from p on that the atom matches in a row
RECURSIVE Run(_, _, _, _)
Run(atom, txt, p, ic) ==
    IF AtomFits(atom, txt, p, ic) THEN 1 + Run(atom, txt, p + 1, ic) ELSE 0

\* the position where the match of atoms k.. started at p ends, -1 when there
\* is none; ch* is greedy and gives characters back one by one (StarEnd)
RECURSIVE MatchEnd(_, _, _, _, _)
RECURSIVE StarEnd(_, _, _, _, _, _)
StarEnd(atoms, k, txt, p, i, ic) ==
    IF i < 0 THEN -1
    ELSE IF MatchEnd(atoms, k + 1, txt, p + i, ic) # -1
    THEN MatchEnd(atoms, k + 1, txt, p + i, ic)
    ELSE StarEnd(atoms, k, txt, p, i - 1, ic)

MatchEnd(atoms, k, txt, p, ic) ==
    IF k > Len(atoms) THEN p
    ELSE IF atoms[k].star THEN StarEnd(atoms, k, txt, p, Run(atoms[k], txt, p, ic), ic)
    ELSE IF AtomFits(atoms[k], txt, p, ic) THEN MatchEnd(atoms, k + 1, txt, p + 1, ic)
    ELSE -1

\* the first position from `from` on where r matches, -1 when there is none
RECURSIVE FirstMatch(_, _, _)
FirstMatch(r, txt, from) ==
    IF from > Len(txt) THEN -1
    ELSE IF MatchEnd(r.atoms, 1, txt, from, r.ignoreCase) # -1 THEN from
    ELSE FirstMatch(r, txt, from + 1)

\* RegExp.prototype.exec once the position of the match is known: [null,
\* index, length, re]; lastIndex is read and written only with the global flag
execAt(r, txt, pos, stop) ==
    IF pos = -1
    THEN [null |-> TRUE, index |-> -1, length |-> 0,
          re |-> IF r.global THEN [r EXCEPT !.lastIndex = 0] ELSE r]
    ELSE [null |-> FALSE, index |-> pos, length |-> stop - pos,
          re |-> IF r.global THEN [r EXCEPT !.lastIndex = stop] ELSE r]

execFrom(r, txt, pos) ==
    execAt(r, txt, pos, IF pos = -1 THEN -1 ELSE MatchEnd(r.atoms, 1, txt, pos, r.ignoreCase))

\* RegExp.prototype.exec(txt)
exec(r, txt) == execFrom(r, txt, FirstMatch(r, txt, IF r.global THEN r.lastIndex ELSE 0))

\* TextFinder.constructor up to its loop
ScanStarted(queries) ==
    /\ re \in {compile(q) : q \in queries}
    /\ scanning = TRUE
    /\ results = <<>>
    /\ fcurrent = 0
    /\ returned = <<>>

Scanned(match) ==
    /\ results' = Append(results, [length |-> match.length, index |-> match.index])
    /\ re' = match.re

\* one round of the loop: exec returns a match and it is pushed; the loop is
\* followed for MaxScan rounds, more than a scan that ends takes on any of
\* the documents
ScanHit ==
    /\ scanning
    /\ Len(results) < MaxScan
    /\ \E match \in {exec(re, text)} : ~match.null /\ Scanned(match)
    /\ UNCHANGED <<scanning, fcurrent, returned, nodes, text, mobjs, markers, devMode, ops,
                   last, decorations, cvars>>

\* exec returns null and the loop is left
ScanEnd ==
    /\ scanning
    /\ \E match \in {exec(re, text)} : match.null /\ re' = match.re
    /\ scanning' = FALSE
    /\ UNCHANGED <<results, fcurrent, returned, nodes, text, mobjs, markers, devMode, ops,
                   last, decorations, cvars>>

(***************************************************************************)
(* HighlightMarkers: the registry of highlights the cursor moves over.     *)
(***************************************************************************)
QueryNames == {"A", "B"}

NullQueries == [null |-> TRUE, names |-> <<>>]
Queries(names) == [null |-> FALSE, names |-> names]

Selected(hs, h, queries) ==
    queries.null \/ \E k \in 1..Len(queries.names) : queries.names[k] = hs[h].queryName

\* the highlights of the query sets named, in registry order
Iterable(hs, reg, queries) ==
    LET Keep(h) == Selected(hs, h, queries) IN SelectSeq(reg, Keep)

\* HighlightMarkers.find(index, queries): the highlight of the marker found,
\* Null when there is none
find(hs, reg, at0, queries) ==
    IF at0 >= 0 /\ at0 < Len(Iterable(hs, reg, queries))
    THEN At0(Iterable(hs, reg, queries), at0)
    ELSE Null

\* HighlightMarkers.calculateTotalActive(queries)
calculateTotalActive(hs, reg, queries) == Len(Iterable(hs, reg, queries))

(***************************************************************************)
(* Cursor.  A cursor value c is [index, active, iterableQueries, total,    *)
(* decorated, emitted, lookups]: the fields of the object, the decorator's *)
(* active highlights, and what the running call has emitted and looked up. *)
(***************************************************************************)
emit(c, event) == [c EXCEPT !.emitted = Append(@, event)]

\* the reference dropped without the decorator being told
clearActiveSilent(c) == [c EXCEPT !.active = Null]

\* Cursor.clearActive_
clearActive_(c) ==
    IF c.active # Null
    THEN [emit(c, <<"setInactive", c.active>>) EXCEPT
              !.decorated = @ \ {c.active}, !.active = Null]
    ELSE c

\* the total Cursor.update asks the registry for
updateTotal(hs, reg, c) == calculateTotalActive(hs, reg, c.iterableQueries)

\* update storing and emitting whether or not the total changed
updateAlways(c, hs, reg, force) ==
    emit([c EXCEPT !.total = updateTotal(hs, reg, c)],
         <<"update", c.index, updateTotal(hs, reg, c)>>)

\* Cursor.update(force)
update(c, hs, reg, force) ==
    IF force \/ updateTotal(hs, reg, c) # c.total
    THEN emit([c EXCEPT !.total = updateTotal(hs, reg, c)],
              <<"update", c.index, updateTotal(hs, reg, c)>>)
    ELSE c

\* clear leaving the index where it was
clearKeepsIndex(c, hs, reg) ==
    emit(update(clearActive_(c), hs, reg, TRUE), <<"clear">>)

\* Cursor.clear
clear(c, hs, reg) ==
    emit(update([clearActive_(c) EXCEPT !.index = -1], hs, reg, TRUE), <<"clear">>)

\* setIterableQueries clearing before the new query sets are installed
setIterableQueriesClearFirst(c, hs, reg, queries) ==
    emit([clear(c, hs, reg) EXCEPT !.iterableQueries =
              IF queries.kind = "null" THEN NullQueries ELSE Queries(queries.names)],
         <<"setiterable">>)

\* Cursor.setIterableQueries(queries), queries = [kind, names] with kind
\* "null", "string" (names holds the one name) or "array"
setIterableQueries(c, hs, reg, queries) ==
    emit(clear([c EXCEPT !.iterableQueries =
                    IF queries.kind = "null" THEN NullQueries ELSE Queries(queries.names)],
               hs, reg),
         <<"setiterable">>)

\* reveal with a throwing callback undoing the activation
revealUndoneOnThrow(c, h, scrollTo, inView) ==
    IF scrollTo = "throws"
    THEN [emit(c, <<"scrollTo", h>>) EXCEPT !.active = Null, !.decorated = @ \ {h}]
    ELSE IF scrollTo = "ok" THEN emit(c, <<"scrollTo", h>>)
    ELSE IF ~inView THEN emit(c, <<"scrollIntoView", h>>)
    ELSE c

\* Cursor.set, bringing the highlight into view: scrollTo is "none" (no
\* callback), "ok" or "throws"; inView is what dom.isInView answers
reveal(c, h, scrollTo, inView) ==
    IF scrollTo # "none"
    THEN IF scrollTo = "throws"
         THEN emit(emit(c, <<"scrollTo", h>>), <<"console.error">>)
         ELSE emit(c, <<"scrollTo", h>>)
    ELSE IF ~inView THEN emit(c, <<"scrollIntoView", h>>)
    ELSE c

\* Cursor.set, lines 132-148: the highlight found is made the active one
activate(c, hs, h, scrollTo, inView) ==
    IF hs[h].elements > 0
    THEN reveal([emit(c, <<"setActive", h>>) EXCEPT
                     !.active = h, !.decorated = @ \cup {h}],
                h, scrollTo, inView)
    ELSE c

\* the index committed and notified also when it is the current one
commitAlways(c, at0) ==
    [c |-> emit([c EXCEPT !.index = at0], <<"update", at0, c.total>>), ret |-> "true"]

\* Cursor.set, lines 150-156: [c, ret]
commit(c, at0) ==
    IF c.index = at0 THEN [c |-> c, ret |-> "false"]
    ELSE [c |-> emit([c EXCEPT !.index = at0], <<"update", at0, c.total>>), ret |-> "true"]

\* the lookup made without the cursor's query sets
setLookupUnfiltered(c, hs, reg, at0) == find(hs, reg, at0, NullQueries)

\* no index refused
setIndexAny(at0) == FALSE

\* Cursor.set, the check of its index: TRUE when set throws
setIndexInvalid(at0) == at0 < 0

\* the highlight Cursor.set looks up
setLookup(c, hs, reg, at0) == find(hs, reg, at0, c.iterableQueries)

\* Cursor.set(index, dontRecurse, scrollTo): [c, ret], ret "true", "false" or
\* "throw"
RECURSIVE set(_, _, _, _, _, _, _)
\* set giving up at the first miss
setFoundNoRetry(c, hs, reg, marker, at0, dontRecurse, scrollTo, inView) ==
    IF marker = Null
    THEN [c |-> c, ret |-> "false"]
    ELSE commit(activate(clearActive_(c), hs, marker, scrollTo, inView), at0)

setFound(c, hs, reg, marker, at0, dontRecurse, scrollTo, inView) ==
    IF marker = Null
    THEN IF ~dontRecurse
         THEN set(c, hs, reg, 0, TRUE, "none", inView)
         ELSE [c |-> c, ret |-> "false"]
    ELSE commit(activate(clearActive_(c), hs, marker, scrollTo, inView), at0)

set(c, hs, reg, at0, dontRecurse, scrollTo, inView) ==
    IF setIndexInvalid(at0) THEN [c |-> c, ret |-> "throw"]
    ELSE setFound([c EXCEPT !.lookups = @ + 1], hs, reg, setLookup(c, hs, reg, at0), at0,
                  dontRecurse, scrollTo, inView)

\* prev without the wrap to the last position
prevIndexNoWrap(c) == c.index - 1

\* the index Cursor.prev moves to
prevIndex(c) == (IF c.index < 1 THEN c.total ELSE c.index) - 1

\* Cursor.prev
prev(c, hs, reg, inView) ==
    IF c.total > 0
    THEN [c |-> set(c, hs, reg, prevIndex(c), FALSE, "none", inView).c, ret |-> "void"]
    ELSE [c |-> c, ret |-> "void"]

\* the index Cursor.next moves to
nextIndex(c) == c.index + 1

\* Cursor.next
next(c, hs, reg, inView) ==
    [c |-> set(c, hs, reg, nextIndex(c), FALSE, "none", inView).c, ret |-> "void"]

(***************************************************************************)
(* The cursor and the registry as a state machine.                         *)
(***************************************************************************)
\* the cursor object at the start of a call
Cursor ==
    [index |-> index, active |-> active, iterableQueries |-> iterableQueries,
     total |-> total, decorated |-> decorated, emitted |-> <<>>, lookups |-> 0]

\* the cursor object and the call record after a call that ended in r
Returned(op, args, r) ==
    /\ index' = r.c.index
    /\ active' = r.c.active
    /\ iterableQueries' = r.c.iterableQueries
    /\ total' = r.c.total
    /\ decorated' = r.c.decorated
    /\ emitted' = r.c.emitted
    /\ clast' = [op |-> op, args |-> args, ret |-> r.ret, lookups |-> r.c.lookups,
                 pre |-> [index |-> index, active |-> active, total |-> total,
                          iterableQueries |-> iterableQueries]]
    /\ ncalls' = ncalls + 1

Void(c) == [c |-> c, ret |-> "void"]

QueryInputs ==
    {[kind |-> "null", names |-> <<>>], [kind |-> "string", names |-> <<"A">>],
     [kind |-> "array", names |-> <<"B">>], [kind |-> "array", names |-> <<"A", "B">>]}

\* Cursor.constructor on an empty registry
CursorConstructed ==
    /\ highlights = <<>>
    /\ registry = <<>>
    /\ index = -1
    /\ active = Null
    /\ iterableQueries = NullQueries
    /\ total = 0
    /\ decorated = {}
    /\ emitted = <<<<"update", -1, 0>>, <<"clear">>, <<"setiterable">>>>
    /\ clast = [op |-> "constructor", args |-> <<>>, ret |-> "void", lookups |-> 0,
                pre |-> [index |-> -1, active |-> Null, total |-> 0,
                         iterableQueries |-> NullQueries]]
    /\ ncalls = 0

\* a highlight is created and added to the registry, which emits "update": the
\* listener of the Cursor constructor runs update()
AddHighlight(q, elements) ==
    /\ ncalls < MaxCalls
    /\ Len(highlights) < MaxHighlights
    /\ highlights' = Append(highlights, [queryName |-> q, elements |-> elements])
    /\ registry' = Append(registry, Len(highlights) + 1)
    /\ Returned("add", <<q, elements>>, Void(update(Cursor, highlights', registry', FALSE)))
    /\ UNCHANGED ivars

\* a highlight is removed from the registry, which emits "update"
RemoveHighlight(k) ==
    /\ ncalls < MaxCalls
    /\ registry' = RemoveAt(registry, k)
    /\ Returned("remove", <<registry[k]>>, Void(update(Cursor, highlights, registry', FALSE)))
    /\ UNCHANGED <<highlights, ivars>>

Clear ==
    /\ ncalls < MaxCalls
    /\ Returned("clear", <<>>, Void(clear(Cursor, highlights, registry)))
    /\ UNCHANGED <<highlights, registry, ivars>>

SetIterableQueries(queries) ==
    /\ ncalls < MaxCalls
    /\ Returned("setIterableQueries", <<queries>>,
                Void(setIterableQueries(Cursor, highlights, registry, queries)))
    /\ UNCHANGED <<highlights, registry, ivars>>

Update(force) ==
    /\ ncalls < MaxCalls
    /\ Returned("update", <<force>>, Void(update(Cursor, highlights, registry, force)))
    /\ UNCHANGED <<highlights, registry, ivars>>

Set(at0, dontRecurse, scrollTo, inView) ==
    /\ ncalls < MaxCalls
    /\ Returned("set", <<at0, dontRecurse, scrollTo, inView>>,
                set(Cursor, highlights, registry, at0, dontRecurse, scrollTo, inView))
    /\ UNCHANGED <<highlights, registry, ivars>>

Prev(inView) ==
    /\ ncalls < MaxCalls
    /\ Returned("prev", <<inView>>, prev(Cursor, highlights, registry, inView))
    /\ UNCHANGED <<highlights, registry, ivars>>

Next(inView) ==
    /\ ncalls < MaxCalls
    /\ Returned("next", <<inView>>, next(Cursor, highlights, registry, inView))
    /\ UNCHANGED <<highlights, registry, ivars>>

(***************************************************************************)
(* Specifications.                                                         *)
(***************************************************************************)
InitIndex == IndexParsed(Docs, BOOLEAN) /\ CursorConstructed /\ FinderConstructed({<<>>})

\* the index and the renderer, the cursor left alone
NextIndex ==
    \/ Parse
    \/ \E i \in 0..Len(markers) - 1 :
          \E s, e \in -1..Len(nodes[mobjs[At0(markers, i)].node].nodeValue) :
             Truncate(i, s, e)
    \/ \E o \in 0..Len(text) - 1 : \E l \in 1..Len(text) - o : Highlight(o, l)
    \/ Decorate

SpecIndex == InitIndex /\ [][NextIndex]_vars

\* the cursor and the registry, the index left alone
SetInputs ==
    {<<cb, v>> \in {"none", "ok", "throws"} \X BOOLEAN : cb = "none" \/ v}

NextCursor ==
    \/ \E q \in QueryNames, n \in 0..1 : AddHighlight(q, n)
    \/ \E k \in 1..Len(registry) : RemoveHighlight(k)
    \/ Clear
    \/ \E q \in QueryInputs : SetIterableQueries(q)
    \/ \E f \in BOOLEAN : Update(f)
    \/ \E i \in -1..Len(registry), d \in BOOLEAN, in \in SetInputs :
          Set(i, d, in[1], in[2])
    \/ \E v \in BOOLEAN : Prev(v)
    \/ \E v \in BOOLEAN : Next(v)

InitCursor ==
    IndexParsed({DocEmpty}, {FALSE}) /\ CursorConstructed /\ FinderConstructed({<<>>})

SpecCursor == InitCursor /\ [][NextCursor]_vars

\* the construction of a TextFinder over the parsed index
InitScan == IndexParsed(Docs, {FALSE}) /\ CursorConstructed /\ ScanStarted(TextQueries)

NextScan == ScanHit \/ ScanEnd

\* the loop keeps running while it can
SpecScan == InitScan /\ [][NextScan]_vars /\ WF_vars(NextScan)

\* a finder over the parsed index and the query loop that consumes it
InitFinder ==
    IndexParsed(Docs, BOOLEAN) /\ CursorConstructed /\ FinderConstructed(HitLists(text))

NextFinder ==
    \/ FinderNext
    \/ QueryRound

SpecFinder == InitFinder /\ [][NextFinder]_vars

(***************************************************************************)
(* Properties of the index and the renderer (SpecIndex).                   *)
(***************************************************************************)
MarkerOffset(mo, mk, i) == mo[mk[i]].offset
MarkerLength(n, mo, mk, i) == Len(n[mo[mk[i]].node].nodeValue)

\* the node texts over the marker array, in array order
MarkerText(n, mo, mk) == Concat([i \in 1..Len(mk) |-> n[mo[mk[i]].node].nodeValue])

Contiguous(n, mo, mk) ==
    /\ Len(mk) > 0 => MarkerOffset(mo, mk, 1) = 0
    /\ \A i \in 1..Len(mk) - 1 :
          MarkerOffset(mo, mk, i + 1) = MarkerOffset(mo, mk, i) + MarkerLength(n, mo, mk, i)

\* C2: in every state reached from a freshly parsed index by truncate calls
\* (and by wrapping and re-parsing), the first marker starts at offset 0 and
\* each marker starts where the node of the marker before it ends.
C2_Contiguity == Contiguous(nodes, mobjs, markers)

\* a truncate that split its node in three has returned
C2_Witness ==
    /\ last.op = "truncate"
    /\ last.ok
    /\ Len(markers) = Len(last.pre.markers) + 2

\* C3: a truncate call, made directly or by surround, leaves the concatenation
\* of the node texts over the marker array as it was, and the summed node
\* length stays the length of the flattened text and the end offset of the
\* last marker.
C3_CharacterConservation ==
    last.op \in {"truncate", "surround"} =>
        /\ MarkerText(nodes, mobjs, markers)
              = MarkerText(last.pre.nodes, last.pre.mobjs, last.pre.markers)
        /\ Len(MarkerText(nodes, mobjs, markers)) = Len(text)
        /\ Len(markers) > 0 =>
              MarkerOffset(mobjs, markers, Len(markers))
                 + MarkerLength(nodes, mobjs, markers, Len(markers)) = Len(text)

\* a truncate has replaced a node by three nodes holding its characters
C3_Witness ==
    /\ last.op = "truncate"
    /\ last.ok
    /\ last.args[2] > 0
    /\ Len(markers) = Len(last.pre.markers) + 2
    /\ Len(text) > 0

\* C4: for every offset o of the flattened text indexOf(o) returns the index of
\* the marker whose node holds o.
C4_IndexOfRoundTrip ==
    \A o \in 0..Len(text) - 1 :
        /\ indexOf(mobjs, markers, o).ok
        /\ indexOf(mobjs, markers, o).val \in 0..Len(markers) - 1
        /\ MarkerOffset(mobjs, markers, indexOf(mobjs, markers, o).val + 1) <= o
        /\ o < MarkerOffset(mobjs, markers, indexOf(mobjs, markers, o).val + 1)
                  + MarkerLength(nodes, mobjs, markers, indexOf(mobjs, markers, o).val + 1)

\* after a truncate, an offset inside a node (not its first character) is
\* looked up in a marker array of three or more markers
C4_Witness ==
    /\ last.op = "truncate"
    /\ last.ok
    /\ Len(markers) >= 3
    /\ \E o \in 0..Len(text) - 1 :
          /\ indexOf(mobjs, markers, o).ok
          /\ indexOf(mobjs, markers, o).val >= 1
          /\ MarkerOffset(mobjs, markers, indexOf(mobjs, markers, o).val + 1) < o

\* C5: indexOf fails for a negative offset and for an offset at or past the
\* end of the flattened text.
C5_IndexOfRejectsInvalid ==
    \A o \in {-1, Len(text), Len(text) + 1} : ~indexOf(mobjs, markers, o).ok

\* the bounds of the last truncate call violate 0 <= start <= end < length
TruncateBoundsInvalid ==
    LET m == At0(last.pre.markers, last.args[1])
        length == Len(last.pre.nodes[last.pre.mobjs[m].node].nodeValue)
    IN ~(0 <= last.args[2] /\ last.args[2] <= last.args[3] /\ last.args[3] < length)

\* C6: a truncate call with bounds violating 0 <= start <= end < length fails
\* and leaves the marker array, every marker object and the document tree as
\* they were.
C6_TruncateRejectsUnchanged ==
    (last.op = "truncate" /\ TruncateBoundsInvalid) =>
        /\ ~last.ok
        /\ markers = last.pre.markers
        /\ mobjs = last.pre.mobjs
        /\ nodes = last.pre.nodes

\* a truncate with start > 0 and end past the last character was rejected
C6_Witness ==
    /\ last.op = "truncate"
    /\ TruncateBoundsInvalid
    /\ last.args[2] > 0
    /\ last.args[3] >= last.args[2]
    /\ ~last.ok

\* the text nodes the range of the last surround call spans, in document
\* order, as they were before the call
SpannedNodes ==
    LET ts == TextNodes(last.pre.nodes)
    IN SubSeq(ts, PosIn(ts, last.pre.mobjs[last.range.start.marker].node),
              PosIn(ts, last.pre.mobjs[last.range.end.marker].node))

\* the characters of the document the range of the last surround call spans
SpannedText ==
    LET all == Concat([i \in 1..Len(SpannedNodes) |->
                          last.pre.nodes[SpannedNodes[i]].nodeValue])
        endLength == Len(last.pre.nodes[last.pre.mobjs[last.range.end.marker].node].nodeValue)
    IN SubSeq(all, last.range.start.offset + 1,
              Len(all) - (endLength - 1 - last.range.end.offset))

\* the text inside the elements the last surround call returned
WrappedText ==
    Concat([i \in 1..Len(last.elements) |->
               Concat([j \in 1..Len(nodes[last.elements[i]].childNodes) |->
                          nodes[nodes[last.elements[i]].childNodes[j]].nodeValue])])

InDocumentOrder(els) ==
    LET order == PreOrder(nodes, Root)
    IN /\ \A i \in 1..Len(els) : PosIn(order, els[i]) > 0
       /\ \A i \in 1..Len(els) - 1 : PosIn(order, els[i]) < PosIn(order, els[i + 1])

\* node id lies inside an element of a never-rendered tag
RECURSIVE InsideIgnored(_, _)
InsideIgnored(n, id) ==
    /\ n[id].parentNode # Null
    /\ \/ n[n[id].parentNode].tagName \in IGNORE_TAGNAMES
       \/ InsideIgnored(n, n[id].parentNode)

SpanIsRendered ==
    \A i \in 1..Len(SpannedNodes) : ~InsideIgnored(last.pre.nodes, SpannedNodes[i])

\* C9: surround on a range spanning k text nodes returns k wrapper elements in
\* document order, each holding one text node (the interior ones the whole
\* original node), after one truncate call when k = 1 and two otherwise; the
\* wrapped texts concatenated are the characters the range spanned, which are
\* those of the hit in the flattened text when no spanned node is never-rendered.
C9_SurroundWraps ==
    last.op = "surround" =>
        /\ last.ok
        /\ Len(SpannedNodes) >= 1
        /\ Len(last.elements) = Len(SpannedNodes)
        /\ last.truncs = (IF Len(SpannedNodes) = 1 THEN 1 ELSE 2)
        /\ \A i \in 1..Len(last.elements) :
              /\ isHighlight(nodes, last.elements[i])
              /\ Len(nodes[last.elements[i]].childNodes) = 1
              /\ nodes[nodes[last.elements[i]].childNodes[1]].nodeType = TEXT_NODE
        /\ \A i \in 2..Len(last.elements) - 1 :
              nodes[last.elements[i]].childNodes = <<SpannedNodes[i]>>
        /\ InDocumentOrder(last.elements)
        /\ WrappedText = SpannedText
        /\ SpanIsRendered => WrappedText = substr(text, last.args[1], last.args[2])

\* a range starting inside its first node and spanning three text nodes or
\* more was wrapped
C9_Witness ==
    /\ last.op = "surround"
    /\ last.ok
    /\ Len(last.elements) >= 3
    /\ last.range.start.offset > 0
    /\ SpanIsRendered

\* C10: for visible text, a script element with text, visible text, wrapping a
\* hit from the first text node to the last returns 2 wrapper elements and
\* leaves the script's text node where it was.
C10_ScriptTextNotWrapped ==
    (/\ last.op = "surround"
     /\ last.pre.nodes = DocScript
     /\ Len(SpannedNodes) = 3) =>
        /\ Len(last.elements) = 2
        /\ nodes[SpannedNodes[2]].parentNode = last.pre.nodes[SpannedNodes[2]].parentNode

\* the text nodes parse records: the non-empty ones, in document order
NonEmptyTextNodes(n) ==
    LET NonEmpty(x) == Len(n[x].nodeValue) >= 1 IN SelectSeq(TextNodes(n), NonEmpty)

\* C11: right after parse the markers are the non-empty text nodes in document
\* order, offsets run on without a shift, and for each marker the slice
\* [offset, offset + length(node)) of the flattened text is a run of spaces of
\* the node's length when the node's parent is of a never-rendered type and the
\* node's text otherwise.
C11_ParseMasksIgnored ==
    last.op \in {"init", "parse"} =>
        /\ [i \in 1..Len(markers) |-> mobjs[markers[i]].node] = NonEmptyTextNodes(nodes)
        /\ Contiguous(nodes, mobjs, markers)
        /\ Len(text) = Len(MarkerText(nodes, mobjs, markers))
        /\ \A i \in 1..Len(markers) :
              SubSeq(text, MarkerOffset(mobjs, markers, i) + 1,
                     MarkerOffset(mobjs, markers, i) + MarkerLength(nodes, mobjs, markers, i))
                  = IF nodes[nodes[mobjs[markers[i]].node].parentNode].tagName
                           \in IGNORE_TAGNAMES
                    THEN repeatSpace(MarkerLength(nodes, mobjs, markers, i))
                    ELSE nodes[mobjs[markers[i]].node].nodeValue

\* parse was called on a tree with a text node under a never-rendered element
\* followed by a rendered one
C11_Witness ==
    /\ last.op = "parse"
    /\ \E i \in 1..Len(markers) - 1 :
          /\ nodes[nodes[mobjs[markers[i]].node].parentNode].tagName \in IGNORE_TAGNAMES
          /\ nodes[mobjs[markers[i]].node].nodeValue # repeatSpace(MarkerLength(nodes, mobjs, markers, i))
          /\ nodes[nodes[mobjs[markers[i + 1]].node].parentNode].tagName \notin IGNORE_TAGNAMES

\* C20: a successful surround call calls the decorator's decorate once, after
\* all its wrappers are in the tree, with the complete wrapper sequence in
\* document order and the highlight, whose range has its start offset cleared
\* by then.
C20_DecoratedOnce ==
    (last.op = "surround" /\ last.ok) =>
        /\ Len(decorations) = 1
        /\ decorations[1].elements = last.elements
        /\ InDocumentOrder(decorations[1].elements)
        /\ decorations[1].range = [last.range EXCEPT !.start.offset = 0]
        /\ decorations[1].wrappers = Wrappers(nodes)
        /\ \A i \in 1..Len(last.elements) : last.elements[i] \in decorations[1].wrappers

\* a range starting inside its first node and spanning two text nodes or more
\* was wrapped and decorated
C20_Witness ==
    /\ last.op = "surround"
    /\ last.ok
    /\ Len(decorations) = 1
    /\ Len(decorations[1].elements) >= 2
    /\ last.range.start.offset > 0

(***************************************************************************)
(* Properties of the cursor (SpecCursor).                                  *)
(***************************************************************************)
\* the highlights the cursor can move over
View == Iterable(highlights, registry, iterableQueries)

\* C1: the cursor is unset, or positioned with 0 <= index < total.
C1_CursorInRange == index = -1 \/ (0 <= index /\ index < total)

\* C7: with n >= 1 highlights in view and total = n, next moves from n - 1 to
\* 0 and from any other position or unset to index + 1; prev moves from 0 or
\* unset to n - 1 and from any other position to index - 1.
C7_NextPrevWrap ==
    (/\ clast.op \in {"next", "prev"}
     /\ Len(View) >= 1
     /\ clast.pre.total = Len(View)
     /\ clast.pre.index \in -1..Len(View) - 1) =>
        index = IF clast.op = "next"
                THEN (IF clast.pre.index = Len(View) - 1 THEN 0 ELSE clast.pre.index + 1)
                ELSE (IF clast.pre.index < 1 THEN Len(View) - 1 ELSE clast.pre.index - 1)

\* with 3 highlights, prev has moved from the first position to the last
C7_Witness ==
    /\ clast.op = "prev"
    /\ Len(View) = 3
    /\ clast.pre.total = 3
    /\ clast.pre.index = 0
    /\ index = 2

\* C8: while the query sets are ["A"], total is the number of highlights of A
\* in the registry and the active highlight, if any, is one of A.
C8_FilterIsolation ==
    iterableQueries = Queries(<<"A">>) =>
        /\ total = Cardinality({k \in 1..Len(registry) :
                                   highlights[registry[k]].queryName = "A"})
        /\ active # Null => highlights[active].queryName = "A"

\* with a highlight of B registered before one of A, next has activated the
\* one of A under the query sets ["A"]
C8_Witness ==
    /\ iterableQueries = Queries(<<"A">>)
    /\ clast.op = "next"
    /\ Len(registry) >= 2
    /\ highlights[registry[1]].queryName = "B"
    /\ active # Null
    /\ index = 0

\* the last cursor call emitted event e
Emitted(e) == \E k \in 1..Len(emitted) : emitted[k] = e

\* the last cursor call emitted an event of kind name
EmittedKind(name) == \E k \in 1..Len(emitted) : emitted[k][1] = name

\* the cursor fields are those before the last call
CursorUnmoved ==
    /\ index = clast.pre.index
    /\ active = clast.pre.active
    /\ total = clast.pre.total
    /\ iterableQueries = clast.pre.iterableQueries

\* the last call was set(i, ...) with i a position of the view
SetResolved ==
    /\ clast.op = "set"
    /\ clast.args[1] >= 0
    /\ clast.args[1] < Len(View)

\* the highlight set(i, ...) resolved
SetTarget == At0(View, clast.args[1])

\* what the last call emitted for the highlight that was active before it
Deactivation ==
    IF clast.pre.active # Null THEN <<<<"setInactive", clast.pre.active>>>> ELSE <<>>

\* C12: set looks the registry up once when its index resolves or no retry is
\* allowed, and twice (the retry at 0, which never retries) otherwise; with an
\* empty view it reports no move without raising, leaves index, active and
\* total as they were and emits nothing; next and prev make at most two
\* lookups.
C12_SetRetriesOnce ==
    /\ (clast.op = "set" /\ clast.args[1] >= 0) =>
          /\ clast.lookups =
                 (IF clast.args[1] < Len(View) \/ clast.args[2] THEN 1 ELSE 2)
          /\ Len(View) = 0 =>
                 /\ clast.ret = "false"
                 /\ CursorUnmoved
                 /\ emitted = <<>>
    /\ clast.op \in {"next", "prev"} => clast.lookups <= 2

\* set with the retry allowed missed twice on an empty view
C12_Witness ==
    /\ clast.op = "set"
    /\ clast.args[1] >= 0
    /\ ~clast.args[2]
    /\ Len(View) = 0
    /\ Len(registry) >= 1
    /\ clast.lookups = 2
    /\ clast.ret = "false"

\* the cursor after one more set call with the arguments of the last one
SetAgain ==
    set(Cursor, highlights, registry, clast.args[1], clast.args[2], clast.args[3],
        clast.args[4])

\* set(i) at the current index i: no move, no update notification, index and
\* total unchanged, the previous active highlight deactivated, and the call
\* repeated leaves the same cursor
SameIndexNoMove ==
    /\ clast.ret = "false"
    /\ index = clast.pre.index
    /\ total = clast.pre.total
    /\ ~EmittedKind("update")
    /\ SubSeq(emitted, 1, Len(Deactivation)) = Deactivation
    /\ SetAgain.ret = "false"
    /\ SetAgain.c.index = index
    /\ SetAgain.c.active = active
    /\ SetAgain.c.total = total
    /\ SetAgain.c.decorated = decorated

C14_RevealOnlyIfHidden ==
    (SetResolved /\ clast.args[4]) => ~EmittedKind("scrollTo")

\* C15: when the reveal callback throws, set does not raise: the resolved
\* highlight is active, the index is committed, and the update notification and
\* the result are those of a call whose callback returned.
C15_RevealFailureContained ==
    (SetResolved /\ clast.args[3] = "throws" /\ EmittedKind("scrollTo")) =>
        /\ Emitted(<<"console.error">>)
        /\ active = SetTarget
        /\ SetTarget \in decorated
        /\ index = clast.args[1]
        /\ total = clast.pre.total
        /\ clast.ret = (IF clast.pre.index = clast.args[1] THEN "false" ELSE "true")
        /\ clast.pre.index # clast.args[1] =>
               emitted[Len(emitted)] = <<"update", clast.args[1], total>>

\* set moved the cursor although its callback threw
C15_Witness ==
    /\ SetResolved
    /\ clast.args[3] = "throws"
    /\ Emitted(<<"console.error">>)
    /\ clast.ret = "true"
    /\ clast.pre.index >= 0
    /\ active = SetTarget

\* C16: set with a negative index raises before any lookup, decorator call or
\* notification and leaves index, active, total and the filter unchanged.
C16_NegativeIndexRaises ==
    (clast.op = "set" /\ clast.args[1] < 0) =>
        /\ clast.ret = "throw"
        /\ clast.lookups = 0
        /\ emitted = <<>>
        /\ CursorUnmoved

\* set(-1) was called on a positioned cursor with an active highlight
C16_Witness ==
    /\ clast.op = "set"
    /\ clast.args[1] < 0
    /\ clast.ret = "throw"
    /\ index >= 0
    /\ active # Null

\* C17: clear deactivates the active highlight if there is one, leaves the
\* cursor unset with no active highlight and total the count of the view, and
\* emits update (with index -1) then clear.
C17_ClearResets ==
    clast.op = "clear" =>
        /\ index = -1
        /\ active = Null
        /\ clast.pre.active \notin decorated
        /\ total = Len(View)
        /\ iterableQueries = clast.pre.iterableQueries
        /\ emitted = Deactivation \o <<<<"update", -1, Len(View)>>, <<"clear">>>>

\* clear ran on a positioned cursor with an active highlight
C17_Witness ==
    /\ clast.op = "clear"
    /\ clast.pre.index >= 0
    /\ clast.pre.active # Null
    /\ total >= 1

\* the query sets setIterableQueries installs for its argument
Installed(queries) ==
    IF queries.kind = "null" THEN NullQueries ELSE Queries(queries.names)

\* C18: after setIterableQueries(q) the filter is q, the cursor is unset, total
\* is the registry count under q, and update, clear, setiterable were emitted
\* in that order.
C18_FilterInstalledBeforeClear ==
    clast.op = "setIterableQueries" =>
        /\ iterableQueries = Installed(clast.args[1])
        /\ index = -1
        /\ active = Null
        /\ total = Len(Iterable(highlights, registry, Installed(clast.args[1])))
        /\ emitted = Deactivation \o
               <<<<"update", -1, total>>, <<"clear">>, <<"setiterable">>>>

\* a filter was installed under which the count differs from the one before
C18_Witness ==
    /\ clast.op = "setIterableQueries"
    /\ clast.args[1].kind # "null"
    /\ clast.pre.index >= 0
    /\ total # clast.pre.total
    /\ total >= 1

\* the force argument of the update call the last operation made
UpdateForce == IF clast.op = "update" THEN clast.args[1] ELSE FALSE

\* C19: update stores the recomputed total and emits update(index, total) if
\* and only if it is forced or the count of the view differs from the cached
\* total; it never changes index, the active highlight or the filter.
C19_UpdateFrame ==
    clast.op \in {"update", "add", "remove"} =>
        /\ index = clast.pre.index
        /\ active = clast.pre.active
        /\ iterableQueries = clast.pre.iterableQueries
        /\ total = Len(View)
        /\ emitted = IF UpdateForce \/ Len(View) # clast.pre.total
                     THEN <<<<"update", index, Len(View)>>>>
                     ELSE <<>>

\* an unforced update was silent on a positioned cursor
C19_Witness ==
    /\ clast.op = "update"
    /\ ~clast.args[1]
    /\ emitted = <<>>
    /\ index >= 0
    /\ total >= 1

(***************************************************************************)
(* Further properties of the index (SpecIndex).                            *)
(***************************************************************************)
\* C22: at(i) fails for every i outside [0, number of markers), and
\* substr(offset, len) fails when offset is outside the flattened text, len is
\* negative or offset + len runs past the end of the flattened text.
C22_AccessorsNeverClamp ==
    /\ \A i \in -1..Len(markers) + 1 :
          (i < 0 \/ i >= Len(markers)) => ~at(markers, i).ok
    /\ \A o \in -1..Len(text) + 1 : \A l \in -1..Len(text) + 1 :
          (o < 0 \/ o >= Len(text) \/ l < 0 \/ o + l > Len(text))
              => ~contentSubstr(text, o, l).ok

\* the arguments and the marker of the last truncate call
TruncIndex == last.args[1]
TruncStart == last.args[2]
TruncEnd == last.args[3]
TruncMarker == At0(last.pre.markers, TruncIndex)
TruncText == last.pre.nodes[last.pre.mobjs[TruncMarker].node].nodeValue
TruncHead == IF TruncStart > 0 THEN 1 ELSE 0
TruncTail == IF TruncEnd < Len(TruncText) - 1 THEN 1 ELSE 0

\* C23: a valid truncate(marker, start, end) inserts one marker right before the
\* marker iff start > 0 and one right after it iff end < length - 1, returns the
\* index at which the marker now is, and leaves the marker with its offset
\* advanced by start and a fresh node holding text[start..end].
C23_TruncateSplits ==
    (last.op = "truncate" /\ last.ok) =>
        /\ Len(markers) = Len(last.pre.markers) + TruncHead + TruncTail
        /\ last.val = TruncIndex + TruncHead
        /\ At0(markers, last.val) = TruncMarker
        /\ mobjs[TruncMarker].offset = last.pre.mobjs[TruncMarker].offset + TruncStart
        /\ nodes[mobjs[TruncMarker].node].nodeValue
               = SubSeq(TruncText, TruncStart + 1, TruncEnd + 1)
        /\ mobjs[TruncMarker].node > Len(last.pre.nodes)
        /\ nodes[mobjs[TruncMarker].node].parentNode
               = last.pre.nodes[last.pre.mobjs[TruncMarker].node].parentNode
        /\ nodes[last.pre.mobjs[TruncMarker].node].parentNode = Null
        /\ TruncHead = 1 =>
               /\ At0(markers, last.val - 1) > Len(last.pre.mobjs)
               /\ mobjs[At0(markers, last.val - 1)].offset
                      = last.pre.mobjs[TruncMarker].offset
               /\ nodes[mobjs[At0(markers, last.val - 1)].node].nodeValue
                      = SubSeq(TruncText, 1, TruncStart)
        /\ TruncTail = 1 =>
               /\ At0(markers, last.val + 1) > Len(last.pre.mobjs)
               /\ mobjs[At0(markers, last.val + 1)].offset
                      = last.pre.mobjs[TruncMarker].offset + TruncEnd + 1
               /\ nodes[mobjs[At0(markers, last.val + 1)].node].nodeValue
                      = SubSeq(TruncText, TruncEnd + 2, Len(TruncText))

\* a node was split in three around its middle character
C23_Witness ==
    /\ last.op = "truncate"
    /\ last.ok
    /\ TruncHead = 1
    /\ TruncTail = 1
    /\ last.val = TruncIndex + 1
    /\ Len(nodes[mobjs[TruncMarker].node].nodeValue) = 1

\* C24: truncate leaves every other marker, before or after the truncated one,
\* with its node and its offset and in its place, and does not modify the
\* flattened text.
C24_TruncateFrame ==
    last.op = "truncate" =>
        /\ text = last.pre.text
        /\ SubSeq(markers, 1, TruncIndex) = SubSeq(last.pre.markers, 1, TruncIndex)
        /\ SubSeq(markers, Len(markers) - (Len(last.pre.markers) - TruncIndex - 1) + 1,
                  Len(markers))
               = SubSeq(last.pre.markers, TruncIndex + 2, Len(last.pre.markers))
        /\ \A k \in 1..Len(last.pre.markers) :
              k # TruncIndex + 1 => mobjs[last.pre.markers[k]] = last.pre.mobjs[last.pre.markers[k]]

\* a marker with markers on both sides was split
C24_Witness ==
    /\ last.op = "truncate"
    /\ last.ok
    /\ TruncIndex >= 1
    /\ TruncIndex + 1 < Len(last.pre.markers)
    /\ Len(markers) > Len(last.pre.markers)

\* the global offset a range descriptor stands for
DescriptorOffset(d) == mobjs[d.marker].offset + d.offset

\* the hits (offset, length), length >= 1, of the flattened text
Hits == {h \in (0..Len(text) - 1) \X (1..Len(text)) : h[1] + h[2] <= Len(text)}

\* the start descriptor of a hit, as getAt_ answers it
HitStart(h) == getAt_(mobjs, markers, h[1]).val

\* C26: every hit (offset, length) resolves to a range whose start descriptor
\* stands for offset and whose end descriptor stands for offset + length - 1,
\* and on the shortcut path the end descriptor is the one a lookup of
\* offset + length - 1 yields.
C26_ResolutionMapsBack ==
    \A h \in Hits :
        /\ resolve(nodes, mobjs, markers, h[1], h[2]).ok
        /\ DescriptorOffset(resolve(nodes, mobjs, markers, h[1], h[2]).val.start) = h[1]
        /\ DescriptorOffset(resolve(nodes, mobjs, markers, h[1], h[2]).val.end)
               = h[1] + h[2] - 1
        /\ HitStart(h).offset + h[2] <= Len(nodes[mobjs[HitStart(h).marker].node].nodeValue)
               => shortcutEnd(HitStart(h), h[2]) = getAt_(mobjs, markers, h[1] + h[2] - 1).val

\* after a truncate there is a hit resolved on the shortcut path inside a
\* marker that is not the first, and one resolved by a second lookup
C26_Witness ==
    /\ last.op = "truncate"
    /\ last.ok
    /\ \E h \in Hits :
          /\ HitStart(h).offset >= 1
          /\ mobjs[HitStart(h).marker].offset >= 1
          /\ HitStart(h).offset + h[2] <= Len(nodes[mobjs[HitStart(h).marker].node].nodeValue)
    /\ \E h \in Hits :
          resolve(nodes, mobjs, markers, h[1], h[2]).val.end.marker # HitStart(h).marker

\* C28: no marker references an empty text node, and marker offsets are
\* strictly increasing.
C28_NoEmptyMarkers ==
    /\ \A i \in 1..Len(markers) : MarkerLength(nodes, mobjs, markers, i) >= 1
    /\ \A i \in 1..Len(markers) - 1 :
          MarkerOffset(mobjs, markers, i) < MarkerOffset(mobjs, markers, i + 1)

\* a node was split up to its last character in a tree that holds an empty
\* text node
C28_Witness ==
    /\ last.op = "truncate"
    /\ last.ok
    /\ TruncHead = 1
    /\ TruncTail = 0
    /\ \E x \in 1..Len(nodes) :
          nodes[x].nodeType = TEXT_NODE /\ nodes[x].nodeValue = <<>> /\ nodes[x].parentNode # Null

\* the index parse() builds from scratch over the current tree
Rebuilt == parse(nodes, <<>>, devMode)

\* C30: rebuilding the index with parse() yields the flattened text and the
\* marker sequence (nodes and offsets) of the index as it is.
C30_RebuildAgrees ==
    /\ Rebuilt.text = text
    /\ [i \in 1..Len(Rebuilt.markers) |-> Rebuilt.mobjs[Rebuilt.markers[i]]]
           = [i \in 1..Len(markers) |-> mobjs[markers[i]]]

\* C21: decorate(highlight) on a wrapped highlight changes neither the
\* document tree, nor the marker array, nor the highlight's wrapper sequence;
\* it calls the decorator once with those elements.
C21_DecorateChangesNothing ==
    last.op = "decorate" =>
        /\ nodes = last.pre.nodes
        /\ markers = last.pre.markers
        /\ mobjs = last.pre.mobjs
        /\ text = last.pre.text
        /\ last.elements = last.args[1]
        /\ decorations = <<decorate(last.args[1], last.range, last.pre.nodes)>>

\* a highlight wrapped inside one text node, on an offset, was decorated again
C21_Witness ==
    /\ last.op = "decorate"
    /\ Len(last.elements) = 1
    /\ Wrappers(nodes) = {last.elements[1]}
    /\ mobjs[last.range.start.marker].offset > 0

(***************************************************************************)
(* Properties of the finder and of a query pass (SpecFinder).              *)
(***************************************************************************)
\* the node of the range's start was, before the last call, the sibling that
\* follows a wrapper: the rest of a text node an earlier hit was cut from
StartFollowsWrapper ==
    LET x == last.pre.mobjs[last.range.start.marker].node
        siblings == last.pre.nodes[last.pre.nodes[x].parentNode].childNodes
    IN /\ PosIn(siblings, x) >= 2
       /\ siblings[PosIn(siblings, x) - 1] \in Wrappers(last.pre.nodes)

\* C25: in a pass over non-overlapping hits in increasing order, every hit is
\* resolved, and every hit in rendered text wrapped in the pass has wrappers
\* holding exactly the characters [offset, offset + length) of the flattened
\* text parsed before the pass.
C25_PassKeepsHitsValid ==
    /\ \A k \in 1..Len(returned) : returned[k].ok
    /\ \A h \in {At0(results, k) : k \in fcurrent..Len(results) - 1} :
          resolve(nodes, mobjs, markers, h.index, h.length).ok
    /\ (last.op = "surround" /\ SpanIsRendered) =>
          /\ last.ok
          /\ WrappedText = substr(text, last.args[1], last.args[2])
          /\ text = last.pre.text

\* the second hit of a pass was wrapped in what was left of the text node the
\* first hit was cut from
C25_Witness ==
    /\ last.op = "surround"
    /\ last.ok
    /\ fcurrent = 2
    /\ SpanIsRendered
    /\ StartFollowsWrapper
    /\ last.range.start.offset = 0
    /\ Len(last.elements) >= 2

\* C27: the k-th next() call returns the range of the k-th hit collected while
\* there is one and 'none' from then on; the position never moves back.
C27_ForwardOnly ==
    /\ fcurrent = Min(Len(returned), Len(results))
    /\ \A k \in 1..Len(returned) :
          /\ returned[k].ok
          /\ returned[k].none = (k > Len(results))
          /\ k <= Len(results) => returned[k].hit = results[k]
    /\ \A k \in 1..Len(returned) - 1 :
          ~returned[k + 1].none => returned[k].hit.index < returned[k + 1].hit.index

\* a finder with one hit returned it, then 'none' twice
C27_Witness ==
    /\ Len(results) = 1
    /\ Len(returned) = 3
    /\ ~returned[1].none
    /\ returned[2].none
    /\ returned[3].none

(***************************************************************************)
(* Further properties of the cursor (SpecCursor).                          *)
(***************************************************************************)
\* C29: when set(i, retry allowed, onReveal) misses at i and wraps to 0, the
\* caller's reveal callback is applied to the highlight at 0, as a direct
\* set(0, ..., onReveal) applies it.
C29_RetryKeepsCallback ==
    (/\ clast.op = "set"
     /\ clast.args[1] >= Len(View)
     /\ ~clast.args[2]
     /\ clast.args[3] # "none"
     /\ Len(View) >= 1
     /\ highlights[View[1]].elements > 0) =>
        /\ active = View[1]
        /\ Emitted(<<"scrollTo", View[1]>>)

\* the positions of the last call's notifications that carry `name`
EmittedAt(name) == {k \in 1..Len(emitted) : emitted[k][1] = name}

\* C31: at most one highlight is in the decorator's active state and it is the
\* cursor's `active` reference; a setActive comes after the setInactive of the
\* highlight that was active before; an unset cursor has no active highlight.
C31_SingleActive ==
    /\ decorated = (IF active = Null THEN {} ELSE {active})
    /\ index = -1 => active = Null
    /\ Cardinality(EmittedAt("setActive")) <= 1
    /\ \A k \in EmittedAt("setActive") :
          /\ emitted[k][2] = active
          /\ clast.pre.active # Null =>
                \E j \in 1..k - 1 : emitted[j] = <<"setInactive", clast.pre.active>>

\* a call moved the active state from one highlight to another
C31_Witness ==
    /\ clast.pre.active # Null
    /\ active # Null
    /\ active # clast.pre.active
    /\ EmittedAt("setActive") # {}
    /\ EmittedAt("setInactive") # {}

(***************************************************************************)
(* Properties of the construction of a TextFinder (SpecScan).              *)
(***************************************************************************)
\* the expression can match without consuming a character
MatchesEmpty(r) == MatchEnd(r.atoms, 1, <<>>, 0, r.ignoreCase) # -1

\* C32: the construction of a TextFinder ends with a finite list of hits, for
\* every string and every RegExp, with or without the global flag, matching
\* the empty string or not.  The loop goes on from re.lastIndex alone, so it
\* ends exactly when every hit it collects starts after the hit before: a hit
\* collected a second time is collected for ever.
C32_ScanAdvances ==
    \A k \in 1..Len(results) - 1 : results[k].index < results[k + 1].index

\* the loop of the construction is left
ScanEnds == <>(~scanning)

\* the construction does end for an expression with the global flag that
\* cannot match the empty string
GlobalNonEmptyTerminates == (re.global /\ ~MatchesEmpty(re)) => <>(~scanning)

====
